---------------------------- MODULE Spec2Model ----------------------------
(***************************************************************************)
(* Customer-data ETL pipeline: Pandas_Assessment_Solution.py ("pandas")    *)
(* and Pyspark_Assessment_Solution.py ("spark").                           *)
(*                                                                         *)
(* A text is a sequence of one-character strings, so that split, startswith*)
(* and length are computed as the code computes them.  A cell of a data    *)
(* frame is a record [kind, s, n]: kind "null" (None / NaN / NaT / SQL     *)
(* NULL), "str" (text s), "date" (n = YYYYMMDD as an integer, so that the  *)
(* integer order is the calendar order) or "int" (n).                      *)
(***************************************************************************)
EXTENDS Integers, Sequences, FiniteSets, TLC

VARIABLES
    impl,       \* "pandas" | "spark": which of the two programs runs
    file,       \* the source file: a sequence of lines (texts)
    now,        \* the wall clock's date (datetime.now() / current_date())
    tie,        \* the engine's row order among equal sort keys (fixed for a stored input)
    pc,         \* position of main()
    header,     \* the column names extract_header returned
    data,       \* the working data frame: a sequence of rows
    latest,     \* global_latest_records / latest_data: a set of rows
    countries,  \* the list the write loop iterates over
    ci,         \* the write loop's position in countries
    store,      \* the stored artifacts: table name -> set of rows
    attempted,  \* the countries whose write this run has attempted
    written,    \* the table names this run has written
    store0,     \* the store as it was when this run started
    runs,       \* how many runs have been started
    prevFile,   \* the input of the previous completed run
    prevStore,  \* the store as the previous completed run left it
    bound       \* the staging frame as first bound to the header, before conversion

vars == <<impl, file, now, tie, pc, header, data, latest, countries, ci,
          store, attempted, written, store0, runs, prevFile, prevStore, bound>>

----------------------------------------------------------------------------
(* Bounds of the model *)

MaxLines == 3
MaxRuns == 2

(* Program constants: the length limits of validate_data and the recency
   threshold of Consulted_Recently *)
NameMax == 255
IdMax == 18
ShortMax == 5
RecentDays == 30

----------------------------------------------------------------------------
(* Texts *)

Bar == "|"

Range(s) == {s[i] : i \in 1..Len(s)}

BSeq(S, n) == UNION {[1..k -> S] : k \in 0..n}

Rep(c, n) == [i \in 1..n |-> c]

StartsWith(s, p) == Len(s) >= Len(p) /\ SubSeq(s, 1, Len(p)) = p

(* str.split('|') / split(value, "\\|"): n delimiters give n+1 tokens, empty
   tokens kept *)
Split(s) ==
    LET P == {i \in 1..Len(s) : s[i] = Bar}
        n == Cardinality(P)
        Pos(k) == IF k = 0 THEN 0
                  ELSE IF k = n + 1 THEN Len(s) + 1
                  ELSE CHOOSE p \in P : Cardinality({q \in P : q < p}) = k - 1
    IN [k \in 1..(n + 1) |-> SubSeq(s, Pos(k - 1) + 1, Pos(k) - 1)]

RECURSIVE LStrip(_)
LStrip(s) == IF Len(s) > 0 /\ s[1] = " " THEN LStrip(Tail(s)) ELSE s

RECURSIVE RStrip(_)
RStrip(s) ==
    IF Len(s) > 0 /\ s[Len(s)] = " " THEN RStrip(SubSeq(s, 1, Len(s) - 1)) ELSE s

(* str.strip() *)
Strip(s) == RStrip(LStrip(s))

RECURSIVE Join(_)
Join(ts) ==
    IF Len(ts) = 0 THEN <<>>
    ELSE IF Len(ts) = 1 THEN ts[1]
    ELSE ts[1] \o <<Bar>> \o Join(Tail(ts))

TagH == <<Bar, "H", Bar>>
TagD == <<Bar, "D", Bar>>

----------------------------------------------------------------------------
(* Cells *)

NullV == [kind |-> "null", s |-> <<>>, n |-> 0]
Str(t) == [kind |-> "str", s |-> t, n |-> 0]
DateV(d) == [kind |-> "date", s |-> <<>>, n |-> d]
IntV(k) == [kind |-> "int", s |-> <<>>, n |-> k]
IsNull(v) == v.kind = "null"

(* Column names *)
Customer_Name == <<"C","u","s","t","o","m","e","r","_","N","a","m","e">>
Customer_Id == <<"C","u","s","t","o","m","e","r","_","I","d">>
Open_Date == <<"O","p","e","n","_","D","a","t","e">>
Last_Consulted_Date == <<"L","a","s","t","_","C","o","n","s","u","l","t","e","d","_","D","a","t","e">>
Vaccination_Id == <<"V","a","c","c","i","n","a","t","i","o","n","_","I","d">>
Dr_Name == <<"D","r","_","N","a","m","e">>
State == <<"S","t","a","t","e">>
Country == <<"C","o","u","n","t","r","y">>
DOB == <<"D","O","B">>
Age == <<"A","g","e">>
Days_Since_Last_Consulted == <<"D","a","y","s","_","S","i","n","c","e","_","L","a","s","t","_","C","o","n","s","u","l","t","e","d">>
Consulted_Recently == <<"C","o","n","s","u","l","t","e","d","_","R","e","c","e","n","t","l","y">>

Yes == Str(<<"Y","e","s">>)
No == Str(<<"N","o">>)
Unknown == Str(<<"U","n","k","n","o","w","n">>)

----------------------------------------------------------------------------
(* Dates *)

Digit(c) ==
    CASE c = "0" -> 0 [] c = "1" -> 1 [] c = "2" -> 2 [] c = "3" -> 3
      [] c = "4" -> 4 [] c = "5" -> 5 [] c = "6" -> 6 [] c = "7" -> 7
      [] c = "8" -> 8 [] c = "9" -> 9 [] OTHER -> -1

N2(s, i) == 10 * Digit(s[i]) + Digit(s[i + 1])
N4(s, i) == 100 * N2(s, i) + N2(s, i + 2)

IsLeap(y) == (y % 4 = 0 /\ y % 100 # 0) \/ y % 400 = 0

DaysIn(y, m) ==
    IF m = 2 THEN (IF IsLeap(y) THEN 29 ELSE 28)
    ELSE IF m \in {4, 6, 9, 11} THEN 30 ELSE 31

ValidYMD(y, m, d) == y >= 1 /\ m \in 1..12 /\ d >= 1 /\ d <= DaysIn(y, m)

MkDate(y, m, d) == y * 10000 + m * 100 + d
YearOf(n) == n \div 10000
MonthOf(n) == (n \div 100) % 100
DayOf(n) == n % 100

RECURSIVE DaysBeforeMonth(_, _)
DaysBeforeMonth(y, m) ==
    IF m <= 1 THEN 0 ELSE DaysBeforeMonth(y, m - 1) + DaysIn(y, m - 1)

(* The proleptic Gregorian day number of a date *)
Ordinal(n) ==
    LET y == YearOf(n) - 1
    IN 365 * y + (y \div 4) - (y \div 100) + (y \div 400)
       + DaysBeforeMonth(YearOf(n), MonthOf(n)) + DayOf(n)

(* A text under "%Y%m%d" / "yyyyMMdd" (fmt = "ymd") or "%d%m%Y" / "ddMMyyyy"
   (fmt = "dmy"): eight digits naming a calendar date, or null *)
ParseDate(t, fmt) ==
    IF Len(t) # 8 \/ \E i \in 1..Len(t) : Digit(t[i]) < 0 THEN NullV
    ELSE LET y == IF fmt = "ymd" THEN N4(t, 1) ELSE N4(t, 5)
             m == IF fmt = "ymd" THEN N2(t, 5) ELSE N2(t, 3)
             d == IF fmt = "ymd" THEN N2(t, 7) ELSE N2(t, 1)
         IN IF ValidYMD(y, m, d) THEN DateV(MkDate(y, m, d)) ELSE NullV


----------------------------------------------------------------------------
(* Rows: a row is a function from column names to cells *)

Fail == [ok |-> FALSE, rows |-> <<>>]
Ok(rows) == [ok |-> TRUE, rows |-> rows]

IndexOf(hdr, c) == CHOOSE i \in 1..Len(hdr) : hdr[i] = c /\ \A j \in 1..(i - 1) : hdr[j] # c

DateCols == {Open_Date, Last_Consulted_Date, DOB}
Checked == {Customer_Name, Customer_Id, Vaccination_Id, Dr_Name, State, Country}
Mandatory == {Customer_Name, Customer_Id, Open_Date}

MapRows(rows, F(_)) == [i \in 1..Len(rows) |-> F(rows[i])]

(* The first line whose second token is H, or 0 *)
FirstHeaderLineByTag(f) ==
    IF \E i \in 1..Len(f) : Len(Split(f[i])) >= 2 /\ Split(f[i])[2] = <<"H">>
    THEN CHOOSE i \in 1..Len(f) :
            /\ Len(Split(f[i])) >= 2 /\ Split(f[i])[2] = <<"H">>
            /\ \A j \in 1..(i - 1) : ~(Len(Split(f[j])) >= 2 /\ Split(f[j])[2] = <<"H">>)
    ELSE 0

(* The first line that starts with "|H|", or 0 *)
FirstHeaderLine(f) ==
    IF \E i \in 1..Len(f) : StartsWith(f[i], TagH)
    THEN CHOOSE i \in 1..Len(f) :
            StartsWith(f[i], TagH) /\ \A j \in 1..(i - 1) : ~StartsWith(f[j], TagH)
    ELSE 0

(* An extract_header that falls back to the first line when no line starts
   with '|H|' *)
pandas_extract_header_fallback(f) ==
    LET i == FirstHeaderLine(f)
    IN IF i = 0 /\ Len(f) = 0 THEN [found |-> FALSE, cols |-> <<>>]
       ELSE LET t == Split(Strip(f[IF i = 0 THEN 1 ELSE i]))
            IN [found |-> TRUE, cols |-> SubSeq(t, 3, Len(t))]

(* pandas extract_header: the tokens after the first two of the first line
   that starts with '|H|', stripped; ValueError when there is none *)
pandas_extract_header(f) ==
    LET i == FirstHeaderLine(f)
    IN IF i = 0 THEN [found |-> FALSE, cols |-> <<>>]
       ELSE LET t == Split(Strip(f[i]))
            IN [found |-> TRUE, cols |-> SubSeq(t, 3, Len(t))]

(* spark extract_header: filter(startswith("|H|")).first(), split("|")[2:] *)
spark_extract_header(f) ==
    LET i == FirstHeaderLine(f)
    IN IF i = 0 THEN [found |-> FALSE, cols |-> <<>>]
       ELSE LET t == Split(f[i])
            IN [found |-> TRUE, cols |-> SubSeq(t, 3, Len(t))]

----------------------------------------------------------------------------
(* pandas: process_and_load_staging *)

(* Tokens pd.read_csv reads as NaN (among its default na_values) *)
NaTokens ==
    { <<>>, <<"N","A">>, <<"N","/","A">>, <<"n","/","a">>, <<"N","U","L","L">>,
      <<"n","u","l","l">>, <<"N","a","N">>, <<"n","a","n">> }

NonBlank(l) == Len(l) > 0

(* pd.read_csv(sep="|", header=None): blank lines are skipped, the first line
   sets the number of columns, a longer line is a ParserError, a shorter line
   is padded with NaN, an empty or NA token is NaN.  Every named column also
   holds the header line's own token, a text, so no column is read as
   numbers and the other cells stay texts. *)
read_csv(f) ==
    LET ls == SelectSeq(f, NonBlank)
        toks == [i \in 1..Len(ls) |-> Split(ls[i])]
        width == IF Len(ls) = 0 THEN 0 ELSE Len(toks[1])
    IN IF Len(ls) = 0 \/ \E i \in 1..Len(ls) : Len(toks[i]) > width
       THEN [ok |-> FALSE, width |-> 0, cells |-> <<>>]
       ELSE [ok |-> TRUE, width |-> width,
             cells |-> [i \in 1..Len(ls) |->
                          [j \in 1..width |->
                             IF j <= Len(toks[i]) /\ toks[i][j] \notin NaTokens
                             THEN Str(toks[i][j]) ELSE NullV]]]

(* pd.to_datetime(col, format, errors='coerce'): NaT for a null, for a text
   that does not parse and for a date outside the Timestamp range *)
pandas_to_datetime(v, fmt) ==
    IF IsNull(v) THEN NullV
    ELSE LET d == ParseDate(v.s, fmt)
         IN IF ~IsNull(d) /\ YearOf(d.n) \notin 1678..2261 THEN NullV ELSE d

pandas_convert_row(r) ==
    [c \in DOMAIN r |->
        IF c \in {Open_Date, Last_Consulted_Date} THEN pandas_to_datetime(r[c], "ymd")
        ELSE IF c = DOB THEN pandas_to_datetime(r[c], "dmy")
        ELSE r[c]]

LimitOf(c) ==
    CASE c = Customer_Name -> NameMax
      [] c = Customer_Id -> IdMax
      [] c = Dr_Name -> NameMax
      [] OTHER -> ShortMax

(* lambda x: x if pd.notnull(x) and len(x) <= limit else None *)
pandas_length_check(v, limit) == IF ~IsNull(v) /\ Len(v.s) <= limit THEN v ELSE NullV

pandas_check_row(r) ==
    [c \in DOMAIN r |-> IF c \in Checked THEN pandas_length_check(r[c], LimitOf(c)) ELSE r[c]]

MandatoryPresent(r) == \A c \in Mandatory : ~IsNull(r[c])

(* pandas validate_data: null the over-length and absent fields, then keep
   the rows whose mandatory fields are all non-null *)
pandas_validate_data(rows) == SelectSeq(MapRows(rows, pandas_check_row), MandatoryPresent)

(* pandas process_and_load_staging, lines 82-84: read, keep the rows whose
   column 1 is 'D', drop the two leading columns, name the rest by the header
   (a ValueError when the counts differ) *)
pandas_bind(f, hdr) ==
    LET csv == read_csv(f)
    IN IF ~csv.ok \/ csv.width < 2 \/ Len(hdr) # csv.width - 2 THEN Fail
       ELSE LET IsD(cs) == cs[2] = Str(<<"D">>)
                Bind(cs) == [c \in Range(hdr) |-> cs[IndexOf(hdr, c) + 2]]
            IN Ok(MapRows(SelectSeq(csv.cells, IsD), Bind))

(* pandas process_and_load_staging: bind, convert the dates, validate (a
   KeyError when a column the code names is missing) *)
process_and_load_staging(f, hdr) ==
    LET b == pandas_bind(f, hdr)
    IN IF ~b.ok \/ ~((DateCols \cup Checked) \subseteq Range(hdr)) THEN Fail
       ELSE Ok(pandas_validate_data(MapRows(b.rows, pandas_convert_row)))

----------------------------------------------------------------------------
(* spark: process_data, convert_dates, validate_data *)

IsDataLine(l) == StartsWith(l, TagD)

(* spark process_data: the lines starting with "|D|", split on "|"; column i
   of the header is element i + 2 of the split (0-based), null when the line
   has no such element *)
process_data(f, hdr) ==
    LET Bind(l) ==
            LET t == Split(l)
            IN [c \in Range(hdr) |->
                   IF IndexOf(hdr, c) + 2 <= Len(t) THEN Str(t[IndexOf(hdr, c) + 2])
                   ELSE NullV]
    IN MapRows(SelectSeq(f, IsDataLine), Bind)

(* to_date(col, fmt): null for a null and for a text that does not parse *)
spark_to_date(v, fmt) == IF IsNull(v) THEN NullV ELSE ParseDate(v.s, fmt)

spark_convert_row(r) ==
    [c \in DOMAIN r |->
        IF c \in {Open_Date, Last_Consulted_Date} THEN spark_to_date(r[c], "ymd")
        ELSE IF c = DOB THEN spark_to_date(r[c], "dmy")
        ELSE r[c]]

(* spark convert_dates; an unknown column is an AnalysisException *)
convert_dates(rows, hdr) ==
    IF ~(DateCols \subseteq Range(hdr)) THEN Fail ELSE Ok(MapRows(rows, spark_convert_row))

(* when(length(x) <= limit, x).otherwise(None): length(NULL) is NULL, and a
   NULL condition takes the otherwise branch *)
spark_length_check(v, limit) == IF ~IsNull(v) /\ Len(v.s) <= limit THEN v ELSE NullV

spark_check_row(r) ==
    [c \in DOMAIN r |-> IF c \in Checked THEN spark_length_check(r[c], LimitOf(c)) ELSE r[c]]

(* spark validate_data (column names resolve case-insensitively, so
   "Customer_ID" is the header's Customer_Id) *)
spark_validate_data(rows, hdr) ==
    IF ~(Checked \subseteq Range(hdr)) THEN Fail
    ELSE Ok(SelectSeq(MapRows(rows, spark_check_row), MandatoryPresent))

----------------------------------------------------------------------------
(* Deduplication *)

(* The sort key of Last_Consulted_Date, descending with nulls last *)
DateKey(v) == IF IsNull(v) THEN -1 ELSE v.n

(* The rows of customer id that sort first when the order is ascending *)
TopRowsAscending(rows, id) ==
    LET InGroup(r) == r[Customer_Id] = id
        g == SelectSeq(rows, InGroup)
        IsTop(r) == \A i \in 1..Len(g) :
                        DateKey(g[i][Last_Consulted_Date]) >= DateKey(r[Last_Consulted_Date])
    IN SelectSeq(g, IsTop)

(* The rows of customer id that sort first: sort_values(ascending=False)
   puts NaT last, desc() is DESC NULLS LAST *)
TopRows(rows, id) ==
    LET InGroup(r) == r[Customer_Id] = id
        g == SelectSeq(rows, InGroup)
        IsTop(r) == \A i \in 1..Len(g) :
                        DateKey(g[i][Last_Consulted_Date]) <= DateKey(r[Last_Consulted_Date])
    IN SelectSeq(g, IsTop)

(* Which of several rows with equal sort keys comes first is the engine's
   row order, t *)
PickTie(s, t) == s[((t - 1) % Len(s)) + 1]

CustomerIds(rows) == {rows[i][Customer_Id] : i \in 1..Len(rows)}

(* pandas: sort_values("Last_Consulted_Date", ascending=False)
   .groupby("Customer_Id").head(1) *)
global_latest_records(rows, t) == {PickTie(TopRows(rows, id), t) : id \in CustomerIds(rows)}

(* spark get_latest_data: row_number() over (partition by Customer_ID order
   by Last_Consulted_Date desc) = 1 *)
get_latest_data(rows, t) == {PickTie(TopRows(rows, id), t) : id \in CustomerIds(rows)}

----------------------------------------------------------------------------
(* Derived columns *)

Derived == {Age, Days_Since_Last_Consulted, Consulted_Recently}

AgeOf(r, today) ==
    IF IsNull(r[DOB]) THEN NullV ELSE IntV(YearOf(today) - YearOf(r[DOB].n))

DaysSince(r, today) ==
    IF IsNull(r[Last_Consulted_Date]) THEN NullV
    ELSE IntV(Ordinal(today) - Ordinal(r[Last_Consulted_Date].n))

(* pandas: "Yes" if x > 30 else "No" if not pd.isna(x) else "Unknown" *)
pandas_consulted_recently(d) ==
    IF ~IsNull(d) /\ d.n > RecentDays THEN Yes
    ELSE IF ~IsNull(d) THEN No ELSE Unknown

(* spark: when(datediff <= 30, "Yes").when(datediff > 30, "No")
   .otherwise("Unknown") *)
spark_consulted_recently(d) ==
    IF ~IsNull(d) /\ d.n <= RecentDays THEN Yes
    ELSE IF ~IsNull(d) /\ d.n > RecentDays THEN No ELSE Unknown

pandas_derive(r, today) ==
    [c \in DOMAIN r \cup Derived |->
        CASE c = Age -> AgeOf(r, today)
          [] c = Days_Since_Last_Consulted -> DaysSince(r, today)
          [] c = Consulted_Recently -> pandas_consulted_recently(DaysSince(r, today))
          [] OTHER -> r[c]]

(* spark add_derived_columns, for one row *)
add_derived_columns(r, today) ==
    [c \in DOMAIN r \cup Derived |->
        CASE c = Age -> AgeOf(r, today)
          [] c = Days_Since_Last_Consulted -> DaysSince(r, today)
          [] c = Consulted_Recently -> spark_consulted_recently(DaysSince(r, today))
          [] OTHER -> r[c]]

----------------------------------------------------------------------------
(* Partitioned write *)

RECURSIVE UniqueAcc(_, _)
UniqueAcc(s, acc) ==
    IF Len(s) = 0 THEN acc
    ELSE UniqueAcc(Tail(s), IF s[1] \in Range(acc) THEN acc ELSE Append(acc, s[1]))

(* Series.unique(): the distinct values in order of first appearance, a null
   among them *)
Unique(s) == UniqueAcc(s, <<>>)

(* pandas: countries = staging_df["Country"].unique() *)
pandas_countries(staging) == Unique([i \in 1..Len(staging) |-> staging[i][Country]])

(* spark: latest_data.select("Country").distinct().collect(), in any order *)
spark_countries(rows) ==
    LET cs == {r[Country] : r \in rows}
    IN {s \in [1..Cardinality(cs) -> cs] : Range(s) = cs}

(* df[df["Country"] == country] / filter(Country == country): a comparison
   with a null is never true *)
CountryIs(r, c) == ~IsNull(c) /\ ~IsNull(r[Country]) /\ r[Country] = c

(* f"Table_{country}": a null country prints as None *)
TableName(c) ==
    <<"T","a","b","l","e","_">> \o (IF IsNull(c) THEN <<"N","o","n","e">> ELSE c.s)

(* pandas: the loop body's country_df with its derived columns *)
pandas_country_df(rows, c, today) == {pandas_derive(r, today) : r \in {q \in rows : CountryIs(q, c)}}

(* spark: the loop body's country_data *)
spark_country_data(rows, c) == {r \in rows : CountryIs(r, c)}

(* A write that appends to the artifact *)
AppendTo(st, name, rows) ==
    [n \in DOMAIN st \cup {name} |->
        IF n = name THEN (IF n \in DOMAIN st THEN st[n] \cup rows ELSE rows) ELSE st[n]]

(* to_csv(path) / write.mode("overwrite").save(path): the artifact is
   replaced *)
Overwrite(st, name, rows) ==
    [n \in DOMAIN st \cup {name} |-> IF n = name THEN rows ELSE st[n]]

----------------------------------------------------------------------------
(* The runs *)

EmptyStore == [n \in {} |-> {}]

Terminal == {"done", "no_header", "stage_error", "write_error"}

StartRun ==
    /\ pc = "extract_header"
    /\ header = <<>>
    /\ data = <<>>
    /\ latest = {}
    /\ countries = <<>>
    /\ ci = 1
    /\ attempted = {}
    /\ written = {}
    /\ bound = <<>>

(* main, step 1: extract_header; its ValueError ends the run *)
ExtractHeader ==
    /\ pc = "extract_header"
    /\ LET h == IF impl = "pandas" THEN pandas_extract_header(file)
                ELSE spark_extract_header(file)
       IN IF h.found THEN header' = h.cols /\ pc' = "staging"
          ELSE header' = header /\ pc' = "no_header"
    /\ UNCHANGED <<impl, file, now, tie, data, latest, countries, ci, store,
                   attempted, written, store0, runs, prevFile, prevStore, bound>>

(* pandas main, step 2: process_and_load_staging *)
PandasStaging ==
    /\ impl = "pandas"
    /\ pc = "staging"
    /\ LET r == process_and_load_staging(file, header)
       IN IF r.ok THEN data' = r.rows /\ bound' = pandas_bind(file, header).rows
                       /\ pc' = "latest"
          ELSE data' = data /\ bound' = bound /\ pc' = "stage_error"
    /\ UNCHANGED <<impl, file, now, tie, header, latest, countries, ci, store,
                   attempted, written, store0, runs, prevFile, prevStore>>

(* spark main, step 3: process_data *)
SparkProcessData ==
    /\ impl = "spark"
    /\ pc = "staging"
    /\ data' = process_data(file, header)
    /\ bound' = data'
    /\ pc' = "convert_dates"
    /\ UNCHANGED <<impl, file, now, tie, header, latest, countries, ci, store,
                   attempted, written, store0, runs, prevFile, prevStore>>

(* spark main, step 4: convert_dates *)
SparkConvertDates ==
    /\ impl = "spark"
    /\ pc = "convert_dates"
    /\ LET r == convert_dates(data, header)
       IN IF r.ok THEN data' = r.rows /\ pc' = "validate_data"
          ELSE data' = data /\ pc' = "stage_error"
    /\ UNCHANGED <<impl, file, now, tie, header, latest, countries, ci, store,
                   attempted, written, store0, runs, prevFile, prevStore, bound>>

(* spark main, step 5: validate_data *)
SparkValidateData ==
    /\ impl = "spark"
    /\ pc = "validate_data"
    /\ LET r == spark_validate_data(data, header)
       IN IF r.ok THEN data' = r.rows /\ pc' = "latest"
          ELSE data' = data /\ pc' = "stage_error"
    /\ UNCHANGED <<impl, file, now, tie, header, latest, countries, ci, store,
                   attempted, written, store0, runs, prevFile, prevStore, bound>>

(* pandas create_and_populate_country_tables, up to the loop: the latest
   record of each customer, and the countries of the staging frame *)
PandasLatest ==
    /\ impl = "pandas"
    /\ pc = "latest"
    /\ latest' = global_latest_records(data, tie)
    /\ countries' = pandas_countries(data)
    /\ ci' = 1
    /\ pc' = "write"
    /\ UNCHANGED <<impl, file, now, tie, header, data, store, attempted, written,
                   store0, runs, prevFile, prevStore, bound>>

(* spark main, step 6: get_latest_data *)
SparkGetLatest ==
    /\ impl = "spark"
    /\ pc = "latest"
    /\ latest' = get_latest_data(data, tie)
    /\ pc' = "derive"
    /\ UNCHANGED <<impl, file, now, tie, header, data, countries, ci, store,
                   attempted, written, store0, runs, prevFile, prevStore, bound>>

(* spark main, step 7: add_derived_columns *)
SparkAddDerived ==
    /\ impl = "spark"
    /\ pc = "derive"
    /\ latest' = {add_derived_columns(r, now) : r \in latest}
    /\ pc' = "collect"
    /\ UNCHANGED <<impl, file, now, tie, header, data, countries, ci, store,
                   attempted, written, store0, runs, prevFile, prevStore, bound>>

(* spark save_country_data, up to the loop: the distinct countries of
   latest_data *)
SparkCollect ==
    /\ impl = "spark"
    /\ pc = "collect"
    /\ \E s \in spark_countries(latest) : countries' = s
    /\ ci' = 1
    /\ pc' = "write"
    /\ UNCHANGED <<impl, file, now, tie, header, data, latest, store, attempted,
                   written, store0, runs, prevFile, prevStore, bound>>

(* The rows one iteration of the write loop writes for country c *)
country_rows(c) ==
    IF impl = "pandas" THEN pandas_country_df(latest, c, now)
    ELSE spark_country_data(latest, c)

(* One iteration of the write loop whose write succeeds *)
WriteCountry ==
    /\ pc = "write"
    /\ ci <= Len(countries)
    /\ LET c == countries[ci]
       IN /\ store' = Overwrite(store, TableName(c), country_rows(c))
          /\ attempted' = attempted \cup {c}
          /\ written' = written \cup {TableName(c)}
    /\ ci' = ci + 1
    /\ UNCHANGED <<impl, file, now, tie, pc, header, data, latest, countries,
                   store0, runs, prevFile, prevStore, bound>>

(* A failed write that is logged and skipped, the loop going on *)
WriteFailsContinue ==
    /\ pc = "write"
    /\ ci <= Len(countries)
    /\ attempted' = attempted \cup {countries[ci]}
    /\ ci' = ci + 1
    /\ UNCHANGED <<impl, file, now, tie, pc, header, data, latest, countries,
                   store, written, store0, runs, prevFile, prevStore, bound>>

(* One iteration of the write loop whose write raises: the except clause
   around the loop logs and re-raises, main logs, the run ends *)
WriteFails ==
    /\ pc = "write"
    /\ ci <= Len(countries)
    /\ attempted' = attempted \cup {countries[ci]}
    /\ pc' = "write_error"
    /\ UNCHANGED <<impl, file, now, tie, header, data, latest, countries, ci,
                   store, written, store0, runs, prevFile, prevStore, bound>>

(* spark: the partition is saved and the CREATE TABLE statement after it
   raises; the run ends as for a failed write *)
SparkCreateTableFails ==
    /\ impl = "spark"
    /\ pc = "write"
    /\ ci <= Len(countries)
    /\ LET c == countries[ci]
       IN /\ store' = Overwrite(store, TableName(c), country_rows(c))
          /\ attempted' = attempted \cup {c}
          /\ written' = written \cup {TableName(c)}
    /\ pc' = "write_error"
    /\ UNCHANGED <<impl, file, now, tie, header, data, latest, countries, ci,
                   store0, runs, prevFile, prevStore, bound>>

(* The write loop is exhausted: the run completes *)
Finish ==
    /\ pc = "write"
    /\ ci > Len(countries)
    /\ pc' = "done"
    /\ UNCHANGED <<impl, file, now, tie, header, data, latest, countries, ci,
                   store, attempted, written, store0, runs, prevFile, prevStore, bound>>

RemoveAt(s, i) == SubSeq(s, 1, i - 1) \o SubSeq(s, i + 1, Len(s))

(* The program is run again after a completed run, on the same stored input
   or on the input with one line removed, with the clock held *)
Rerun ==
    /\ pc = "done"
    /\ runs < MaxRuns
    /\ \E f \in {file} \cup {RemoveAt(file, i) : i \in 1..Len(file)} : file' = f
    /\ prevFile' = file
    /\ prevStore' = store
    /\ store0' = store
    /\ runs' = runs + 1
    /\ pc' = "extract_header"
    /\ header' = <<>>
    /\ data' = <<>>
    /\ latest' = {}
    /\ countries' = <<>>
    /\ ci' = 1
    /\ attempted' = {}
    /\ written' = {}
    /\ bound' = <<>>
    /\ UNCHANGED <<impl, now, tie, store>>

Next ==
    \/ ExtractHeader
    \/ PandasStaging
    \/ SparkProcessData
    \/ SparkConvertDates
    \/ SparkValidateData
    \/ PandasLatest
    \/ SparkGetLatest
    \/ SparkAddDerived
    \/ SparkCollect
    \/ WriteCountry
    \/ WriteFails
    \/ SparkCreateTableFails
    \/ Finish

NextRerun == Next \/ Rerun

----------------------------------------------------------------------------
(* Inputs *)

Today == MkDate(2024, 3, 1)

StdCols ==
    <<Customer_Name, Customer_Id, Open_Date, Last_Consulted_Date, Vaccination_Id,
      Dr_Name, State, Country, DOB>>

AltCols ==
    <<Customer_Id, Customer_Name, Open_Date, Last_Consulted_Date, Vaccination_Id,
      Dr_Name, State, Country, DOB>>

HLine(lead, cols) == Join(<<lead, <<"H">>>> \o cols)
DLine(lead, fields) == Join(<<lead, <<"D">>>> \o fields)

HdrStd == HLine(<<>>, StdCols)
HdrAlt == HLine(<<>>, AltCols)
HdrLead == HLine(<<"H">>, StdCols)

D20240101 == <<"2","0","2","4","0","1","0","1">>
D20240131 == <<"2","0","2","4","0","1","3","1">>
D20240130 == <<"2","0","2","4","0","1","3","0">>
D15011990 == <<"1","5","0","1","1","9","9","0">>
CoUS == <<"U","S">>
CoIN == <<"I","N">>
Bad == <<"b","a","d">>

(* customer 7, consulted 30 days before Today, country US *)
RowA30US == DLine(<<>>, <<<<"A">>, <<"7">>, D20240101, D20240131, <<"V">>, <<"D">>, <<"C","A">>, CoUS, D15011990>>)
(* customer 7, consulted 31 days before Today, country IN *)
RowA31IN == DLine(<<>>, <<<<"A">>, <<"7">>, D20240101, D20240130, <<"V">>, <<"D">>, <<"K","A">>, CoIN, D15011990>>)
(* customer 7, consulted 30 days before Today, country IN *)
RowA30IN == DLine(<<>>, <<<<"A">>, <<"7">>, D20240101, D20240131, <<"V">>, <<"D">>, <<"K","A">>, CoIN, D15011990>>)
(* customer 7, every optional field invalid: the dates do not parse, the
   short fields have six characters, Dr_Name has 256 *)
RowAOptBad == DLine(<<>>, <<<<"A">>, <<"7">>, D20240101, Bad, Rep("v", ShortMax + 1), Rep("d", NameMax + 1), Rep("s", ShortMax + 1), Rep("c", ShortMax + 1), D20240131>>)
(* customer 8, consulted 31 days before Today, country US *)
RowB31US == DLine(<<>>, <<<<"B">>, <<"8">>, D20240101, D20240130, <<"V">>, <<"D">>, <<"C","A">>, CoUS, D15011990>>)

PoolLatest == {HdrStd, RowA30US, RowA31IN, RowA30IN, RowAOptBad, RowB31US}

InitRun ==
    /\ impl \in {"pandas", "spark"}
    /\ now = Today
    /\ StartRun
    /\ store = EmptyStore
    /\ store0 = EmptyStore
    /\ runs = 1
    /\ prevFile = <<>>
    /\ prevStore = EmptyStore

(* Deduplication, derivation and the partitioned write *)
Init ==
    /\ file \in BSeq(PoolLatest, MaxLines)
    /\ tie \in 1..MaxLines
    /\ InitRun

Spec == Init /\ [][Next]_vars

(* customer 9, a data line whose first token is not empty *)
RowLead == DLine(<<"x">>, <<<<"C">>, <<"9">>, D20240101, D20240130, <<"V">>, <<"D">>, <<"C","A">>, CoUS, D15011990>>)
(* a line that is neither header nor data, as wide as the others *)
OtherLine == Join(<<<<>>, <<"X">>, <<"a">>, <<"b">>, <<"c">>, <<"d">>, <<"e">>, <<"f">>, <<"g">>, <<"h">>, <<"i">>>>)
(* customer 5, a data line five fields short *)
RowShort == DLine(<<>>, <<<<"S">>, <<"5">>, D20240101, D20240131>>)
(* customer 6, a data line with one field too many *)
RowLong == DLine(<<>>, <<<<"L">>, <<"6">>, D20240101, D20240131, <<"V">>, <<"D">>, <<"C","A">>, CoUS, D15011990, <<"z">>>>)
(* an empty Customer_Name *)
RowEmptyName == DLine(<<>>, <<<<>>, <<"1">>, D20240101, D20240131, <<"V">>, <<"D">>, <<"C","A">>, CoUS, D15011990>>)
(* a Customer_Name of 256 characters *)
RowLongName == DLine(<<>>, <<Rep("n", NameMax + 1), <<"2">>, D20240101, D20240131, <<"V">>, <<"D">>, <<"C","A">>, CoUS, D15011990>>)
(* a Customer_Id of 19 characters *)
RowLongId == DLine(<<>>, <<<<"I">>, Rep("3", IdMax + 1), D20240101, D20240131, <<"V">>, <<"D">>, <<"C","A">>, CoUS, D15011990>>)
(* an Open_Date in day-month-year order *)
RowBadOpen == DLine(<<>>, <<<<"O">>, <<"4">>, D15011990, D20240131, <<"V">>, <<"D">>, <<"C","A">>, CoUS, D15011990>>)

PoolClassify == {HdrStd, HdrAlt, HdrLead, RowA30US, RowLead, OtherLine, RowShort, RowLong}

PoolValidate == {HdrStd, RowA30US, RowEmptyName, RowLongName, RowLongId, RowBadOpen, RowAOptBad}

PoolRerun == {HdrStd, RowA30US, RowB31US}

(* Record classification and schema binding *)
InitClassify ==
    /\ file \in BSeq(PoolClassify, MaxLines)
    /\ tie = 1
    /\ InitRun

SpecClassify == InitClassify /\ [][Next]_vars

(* Field validation *)
InitValidate ==
    /\ file \in BSeq(PoolValidate, MaxLines)
    /\ tie = 1
    /\ InitRun

SpecValidate == InitValidate /\ [][Next]_vars

(* Successive runs over one store *)
InitRerun ==
    /\ file \in BSeq(PoolRerun, MaxLines)
    /\ tie = 1
    /\ InitRun

SpecRerun == InitRerun /\ [][NextRerun]_vars

----------------------------------------------------------------------------
(* What the rows of a run are, read off the run's state *)

(* A row without the derived columns *)
Base(r) == [c \in Range(header) |-> r[c]]

(* The deduplicator has produced its output *)
Deduped == pc \in {"derive", "collect", "write", "done", "write_error"}

(* The canonical rows of the run with their derived columns: the spark
   program derives them for all of latest_data, the pandas program inside
   the write loop *)
Canonical ==
    IF impl = "pandas" THEN {pandas_derive(r, now) : r \in latest}
    ELSE IF pc \in {"collect", "write", "done", "write_error"} THEN latest
    ELSE {add_derived_columns(r, now) : r \in latest}

ValidatedOf(id) == {i \in 1..Len(data) : data[i][Customer_Id] = id}

(* C1: once the deduplicator has run, its output holds exactly one row for
   each Customer_Id of the validated rows and no other row; that row is one
   of the customer's validated rows, its Last_Consulted_Date is >= that of
   every validated row of the customer with a null date counting as the
   minimum, and it has a null date only if all of the customer's rows do. *)
C1_LatestPerCustomer ==
    Deduped =>
        /\ \A id \in CustomerIds(data) :
              /\ Cardinality({r \in latest : r[Customer_Id] = id}) = 1
              /\ \A r \in latest :
                    r[Customer_Id] = id =>
                       \A i \in ValidatedOf(id) :
                          /\ DateKey(data[i][Last_Consulted_Date]) <= DateKey(r[Last_Consulted_Date])
                          /\ (IsNull(r[Last_Consulted_Date]) => IsNull(data[i][Last_Consulted_Date]))
        /\ \A r \in latest : Base(r) \in Range(data)

(* A customer with a dated row and, later in the file, an undated row has
   been deduplicated and the run is complete *)
C1_Witness ==
    /\ pc = "done"
    /\ \E i, j \in 1..Len(data) :
          /\ i < j
          /\ data[i][Customer_Id] = data[j][Customer_Id]
          /\ ~IsNull(data[i][Last_Consulted_Date])
          /\ IsNull(data[j][Last_Consulted_Date])
    /\ Cardinality(latest) = 1

(* The mapping the claim gives from the day count to Consulted_Recently *)
ClaimedRecently(d) ==
    IF IsNull(d) THEN Unknown ELSE IF d.n > RecentDays THEN Yes ELSE No

(* C3: for every canonical row, Consulted_Recently is "Yes" when
   Days_Since_Last_Consulted > 30, "No" when it is non-null and <= 30, and
   "Unknown" when Last_Consulted_Date is null. *)
C3_ConsultedRecently ==
    Deduped =>
        \A r \in Canonical :
            /\ r[Consulted_Recently] = ClaimedRecently(r[Days_Since_Last_Consulted])
            /\ (IsNull(r[Last_Consulted_Date]) => r[Consulted_Recently] = Unknown)

(* C4: after a run that completes, every canonical row is in exactly one
   written table, Table_<Country> of its Country, a null Country included,
   and every row of Table_<c> has Country = c. *)
C4_EveryRowInItsTable ==
    pc = "done" =>
        /\ \A r \in Canonical :
              LET n == TableName(r[Country])
              IN /\ n \in written
                 /\ r \in store[n]
                 /\ \A m \in written \ {n} : r \notin store[m]
        /\ \A c \in Range(countries) : \A r \in store[TableName(c)] : r[Country] = c

(* C8, as claimed: when the write loop has ended, by completing or by a
   failed write, a write of every country partition has been attempted. *)
C8_EveryPartitionAttempted ==
    pc \in {"done", "write_error"} => Range(countries) \subseteq attempted

(* C8, amended: a failed write ends the loop.  The partitions before the
   failing one are written, the failing one is attempted (and written only
   if the failure came after its save), no later one is attempted; every
   partition is attempted and written only when no write fails. *)
C8_FailureEndsTheLoop ==
    /\ pc = "write_error" =>
          /\ attempted = {countries[k] : k \in 1..ci}
          /\ \/ written = {TableName(countries[k]) : k \in 1..(ci - 1)}
             \/ written = {TableName(countries[k]) : k \in 1..ci}
    /\ pc = "write" =>
          /\ attempted = {countries[k] : k \in 1..(ci - 1)}
          /\ written = {TableName(countries[k]) : k \in 1..(ci - 1)}
    /\ pc = "done" =>
          /\ attempted = Range(countries)
          /\ written = {TableName(c) : c \in Range(countries)}

(* The first write failed and a later partition was never attempted *)
C8_Witness ==
    /\ pc = "write_error"
    /\ ci < Len(countries)
    /\ countries[Len(countries)] \notin attempted

(* C10: the tables a completed run has written are exactly those of the
   distinct Country values of its canonical rows: no table is written for a
   country that no canonical row carries. *)
C10_TablesOfCanonicalCountries ==
    pc = "done" => written = {TableName(r[Country]) : r \in latest}

----------------------------------------------------------------------------
(* Classification, as the claims state it *)

HasTag(l, tag) == Len(Split(l)) >= 2 /\ Split(l)[2] = <<tag>>

FirstWhere(f, P(_)) ==
    IF \E i \in 1..Len(f) : P(f[i])
    THEN CHOOSE i \in 1..Len(f) : P(f[i]) /\ \A j \in 1..(i - 1) : ~P(f[j])
    ELSE 0

SchemaOf(l) == SubSeq(Split(l), 3, Len(Split(l)))

(* Token of column c in line l, empty when the line has no such token *)
Field(l, c) ==
    LET j == IndexOf(header, c) + 2
    IN IF j <= Len(Split(l)) THEN Split(l)[j] ELSE <<>>

(* The run has bound its data rows *)
Staged == pc \notin {"extract_header", "staging", "no_header", "stage_error"}

TaggedH(l) == HasTag(l, "H")
TaggedD(l) == HasTag(l, "D")
PrefixH(l) == StartsWith(l, TagH)
PrefixD(l) == StartsWith(l, TagD)

BoundFrom(ds) ==
    /\ Len(bound) = Len(ds)
    /\ \A k \in 1..Len(ds) :
          Field(ds[k], Customer_Id) # <<>> =>
              bound[k][Customer_Id] = Str(Field(ds[k], Customer_Id))

(* C6, as claimed: the first line whose second token is H supplies the
   schema whatever its first token is, and the data rows are the lines whose
   second token is D, in both implementations. *)
C6_ClassifiedBySecondToken ==
    /\ pc # "extract_header" =>
          LET h == FirstWhere(file, TaggedH)
          IN IF h = 0 THEN pc = "no_header"
             ELSE pc # "no_header" /\ header = SchemaOf(file[h])
    /\ Staged => BoundFrom(SelectSeq(file, TaggedD))

(* C6, amended: the schema comes from the first line that starts with "|H|"
   (empty first token, second token H), and none is found when no line
   starts so; the data rows are the lines starting with "|D|" in the spark
   program and, once the pandas program has read the file, the lines whose
   second token is D whatever their first token. *)
C6_ClassifiedByPrefix ==
    /\ pc # "extract_header" =>
          LET h == FirstWhere(file, PrefixH)
          IN IF h = 0 THEN pc = "no_header" /\ header = <<>>
             ELSE pc # "no_header" /\ header = SchemaOf(file[h])
    /\ Staged =>
          IF impl = "pandas" THEN BoundFrom(SelectSeq(file, TaggedD))
          ELSE BoundFrom(SelectSeq(file, PrefixD))

(* The pandas program has completed on a file whose first line is tagged H
   after a non-empty first token and whose only data line also has a
   non-empty first token *)
C6_Witness ==
    /\ impl = "pandas"
    /\ pc = "done"
    /\ TaggedH(file[1])
    /\ ~PrefixH(file[1])
    /\ Len(bound) = 1
    /\ \E i \in 1..Len(file) : TaggedD(file[i]) /\ ~PrefixD(file[i])

(* A data line with as many fields as the header has columns *)
WellFormed(l) == Len(Split(l)) - 2 = Len(header)

DataLines == IF impl = "pandas" THEN SelectSeq(file, TaggedD) ELSE SelectSeq(file, PrefixD)

(* C7: a data line whose field count differs from the header's column count
   is left out of the bound rows and the run goes on: it never fails at
   staging, and the bound rows are those of the well-formed data lines. *)
C7_MalformedLinesSkipped ==
    /\ pc # "stage_error"
    /\ Staged => BoundFrom(SelectSeq(DataLines, WellFormed))

----------------------------------------------------------------------------
(* Validation, as the claim states it *)

Validated == pc \in {"latest", "derive", "collect", "write", "done", "write_error"}

Eligible(l) ==
    /\ Field(l, Customer_Name) # <<>>
    /\ Len(Field(l, Customer_Name)) <= NameMax
    /\ Field(l, Customer_Id) # <<>>
    /\ Len(Field(l, Customer_Id)) <= IdMax
    /\ ~IsNull(ParseDate(Field(l, Open_Date), "ymd"))

(* C2: the validated rows are exactly the data rows whose Customer_Name is
   present with length <= 255, whose Customer_Id is present with length
   <= 18 and whose Open_Date parses as YYYYMMDD; no validated row and no row
   of a table has a null mandatory field. *)
C2_KeptIffMandatoryValid ==
    /\ Validated =>
          LET el == SelectSeq(DataLines, Eligible)
          IN /\ Len(data) = Len(el)
             /\ \A k \in 1..Len(el) : data[k][Customer_Id] = Str(Field(el[k], Customer_Id))
             /\ \A k \in 1..Len(data) : MandatoryPresent(data[k])
    /\ \A n \in DOMAIN store : \A r \in store[n] : MandatoryPresent(r)

----------------------------------------------------------------------------
(* Successive runs *)

(* C5: when no line of the input is tagged H, the run ends at header
   extraction: no row is bound, validated or deduplicated, no write is
   attempted and the store is as it was when the run started. *)
C5_NoHeaderHalts ==
    (FirstWhere(file, TaggedH) = 0 /\ pc # "extract_header") =>
        /\ pc = "no_header"
        /\ bound = <<>>
        /\ data = <<>>
        /\ latest = {}
        /\ attempted = {}
        /\ written = {}
        /\ store = store0

(* A second run without a header line has halted over the tables of the
   first run *)
C5_Witness ==
    /\ runs = 2
    /\ FirstWhere(file, TaggedH) = 0
    /\ Len(file) > 0
    /\ pc = "no_header"
    /\ DOMAIN store # {}
    /\ store = prevStore

(* The rows this run holds for country c *)
RowsFor(c) == {r \in Canonical : CountryIs(r, c)}

(* C9: every table a completed run has written holds exactly that run's
   rows of that country, nothing of an earlier run; and a completed run on
   the input of the previous completed run leaves the store as that run
   left it. *)
C9_Overwrite ==
    pc = "done" =>
        /\ \A c \in Range(countries) : store[TableName(c)] = RowsFor(c)
        /\ (runs > 1 /\ file = prevFile) => store = prevStore

(* A second run has replaced a table of the first run by different rows *)
C9_Witness ==
    /\ pc = "done"
    /\ runs = 2
    /\ \E n \in written : n \in DOMAIN prevStore /\ store[n] # prevStore[n] /\ store[n] # {}

============================================================================
